---------------------------- MODULE Spec2Model ----------------------------
(***************************************************************************)
(* t2::queue<T> (src/include/queue.hpp): a bounded ring buffer whose slots *)
(* carry a 16-bit lap counter and whose two cursors pack a 16-bit position *)
(* and a 16-bit lap into one 32-bit word.                                  *)
(*                                                                         *)
(* A 32-bit word is kept as its two 16-bit halves (TLC's integers are      *)
(* 32-bit signed): a cursor is [pos, lap] with lap the high half, so bit   *)
(* 31 of the word (kMask32) is bit 15 of lap (kMask16); size_ is [hi, lo]. *)
(* Every thread takes one step per access to shared memory.                *)
(***************************************************************************)
EXTENDS Integers, Sequences, FiniteSets

\* ------------------------------------------------------------ bounds
MaxCap == 2
MaxPush == 3
MaxPop == 3
MaxPeek == 2
MaxClose == 2

\* --------------------------------------------------- program constants
kMask16 == 32768
W16 == 65536

Producers == {"p1", "p2"}
Consumers == {"c1", "c2"}
Closers == {"k1"}
Threads == Producers \cup Consumers \cup Closers

VARIABLES
    cap_,         \* queue capacity
    buf_,         \* ring buffer: slot index -> [lap, value]
    size_,        \* std::atomic<uint32_t>, as [hi, lo]
    sendX_,       \* std::atomic<uint32_t>, as [pos, lap]
    recvX_,       \* uint32_t (not atomic), as [pos, lap]
    frame,        \* per thread: position in its call and the call's locals
    ret,          \* the call that returned in the step just taken, if any
    claimed,      \* history: values in the order their slots were claimed
    pushedBy,     \* history: per producer, the values it published, in order
    popped,       \* history: values in the order pops published their slot
    calls,        \* history: number of calls started, per operation
    closesDone,   \* history: number of close() calls that returned
    drain,        \* history: the number of values popped when a close()
                  \* first returned with no push in flight; -1 before that
    refQ,         \* reference FIFO: the stored values
    refClosed,    \* reference FIFO: its closed flag
    expect        \* reference FIFO: its answer to the call in progress

shared == <<cap_, buf_, size_, sendX_, recvX_>>
hist == <<claimed, pushedBy, popped, calls, closesDone, drain>>
refVars == <<refQ, refClosed, expect>>
vars == <<cap_, buf_, size_, sendX_, recvX_, frame, ret, claimed, pushedBy,
          popped, calls, closesDone, drain, refQ, refClosed, expect>>

\* ------------------------------------------------------------ words
Word(p, l) == [pos |-> p, lap |-> l]

\* x + 1 on the packed word: a carry out of the low half goes into the lap.
Inc32(x) ==
    IF x.pos + 1 < W16 THEN Word(x.pos + 1, x.lap)
    ELSE Word(0, (x.lap + 1) % W16)

\* (uint32_t)(lap + 2) << 16: the sum is an int, the shift drops bit 16.
LapShiftOne(lap) == Word(0, (lap + 1) % W16)
LapShift(lap) == Word(0, (lap + 2) % W16)

\* (int16_t)(a - b)
S16(a, b) ==
    LET d == (a - b) % W16
    IN  IF d >= kMask16 THEN d - W16 ELSE d

\* size_.fetch_add(d) for d = 1 or d = -1, modulo 2^32
Add32(s, d) ==
    LET lo == s.lo + d
    IN  IF lo >= W16 THEN [hi |-> (s.hi + 1) % W16, lo |-> 0]
        ELSE IF lo < 0 THEN [hi |-> (s.hi - 1) % W16, lo |-> W16 - 1]
        ELSE [hi |-> s.hi, lo |-> lo]

\* uint16_t store of elem_lap + 1
LapPlus2(elem_lap) == (elem_lap + 2) % W16
LapPlus1(elem_lap) == (elem_lap + 1) % W16

\* ------------------------------------------------- pieces of the code
\* select_4_write: new_x, the send cursor after a claim
NextXNoWrap(x, cap) == Word((x.pos + 1) % cap, x.lap)
NextX(x, cap) ==
    IF x.pos + 1 < cap THEN Inc32(x) ELSE LapShift(x.lap)

\* lap == elem_lap: the slot is in the state this side expects
SlotReadyAlways(lap, elem_lap) == TRUE
SlotReady(lap, elem_lap) == lap = elem_lap

\* compare_exchange_weak's comparison
CasPlainStore(cur, expected) == TRUE
CasEq(cur, expected) == cur = expected

\* (int16_t)(lap - elem_lap) > 0
LapAheadUnsigned(lap, elem_lap) == lap > elem_lap
LapAhead(lap, elem_lap) == S16(lap, elem_lap) > 0

\* lap >= kMask16: the closed bit of a send cursor word
ClosedBitStrict(x) == x.lap > kMask16
ClosedBit(x) == x.lap >= kMask16

\* close(): new_x = x | kMask32
CloseNewXToggle(x) ==
    Word(x.pos, IF x.lap >= kMask16 THEN x.lap - kMask16 ELSE x.lap + kMask16)
CloseNewX(x) ==
    Word(x.pos, IF x.lap >= kMask16 THEN x.lap ELSE x.lap + kMask16)

is_close == ClosedBit(sendX_)
len == size_

\* ------------------------------------------------------------ frames
Result(st, v) == [st |-> st, v |-> v]
NoResult == Result("NONE", 0)

\* A thread's frame: pc and the call's locals, each kept while the code can
\* still read it, and three history fields: atClosed is is_close(), atDrain
\* is drain >= 0 and atStored is StoredDone, all as the call started.
NoFrame ==
    [pc |-> "idle", op |-> "none", x |-> Word(0, 0), new_x |-> Word(0, 0),
     pos |-> 0, lap |-> 0, elem_lap |-> 0, tmp |-> Word(0, 0), val |-> 0,
     out |-> 0, atClosed |-> FALSE, atDrain |-> FALSE, atStored |-> FALSE]
NoRet ==
    [t |-> "none", op |-> "none", res |-> NoResult, atClosed |-> FALSE,
     atDrain |-> FALSE, atStored |-> FALSE]

Idle(t) == frame[t].pc = "idle"
AllIdle == \A t \in Threads : Idle(t)
\* A step inside a call: the frame changes, nothing returns.
Step(t, f) ==
    /\ frame' = [frame EXCEPT ![t] = f]
    /\ ret' = NoRet
\* A call returns r: its locals go out of scope.
Return(t, r) ==
    /\ frame' = [frame EXCEPT ![t] = NoFrame]
    /\ ret' = [t |-> t, op |-> frame[t].op, res |-> r,
               atClosed |-> frame[t].atClosed, atDrain |-> frame[t].atDrain,
               atStored |-> frame[t].atStored]

\* ------------------------------------------------------------ Init
\* The state after queue(cap), with every slot and the send cursor on lap l0
\* and the recv cursor on lap l0 + 1: l0 = 0 after construction, and an even
\* l0 < kMask16 after l0 / 2 rounds of cap pushes and cap pops.
Constructed(cap, l0) ==
    /\ cap_ = cap
    /\ buf_ = [i \in 0 .. cap - 1 |-> [lap |-> l0, value |-> 0]]
    /\ size_ = [hi |-> 0, lo |-> 0]
    /\ sendX_ = Word(0, l0)
    /\ recvX_ = Word(0, l0 + 1)
    /\ frame = [t \in Threads |-> NoFrame]
    /\ ret = NoRet
    /\ claimed = <<>>
    /\ pushedBy = [p \in Producers |-> <<>>]
    /\ popped = <<>>
    /\ calls = [push |-> 0, pop |-> 0, peek |-> 0, close |-> 0]
    /\ closesDone = 0
    /\ drain = -1
    /\ refQ = <<>>
    /\ refClosed = FALSE
    /\ expect = NoResult

Init == \E cap \in 1 .. MaxCap : Constructed(cap, 0)

\* The queue one or two rounds of the ring before the send cursor's lap
\* reaches kMask16.
InitLap ==
    \E cap \in 1 .. MaxCap : \E l0 \in {kMask16 - 4, kMask16 - 2} :
        Constructed(cap, l0)

\* ------------------------------------------------------ reference FIFO
\* A FIFO of capacity cap_ with a closed flag, and its answer to each call.
RefPush(v) ==
    /\ expect' = IF refClosed THEN Result("CLOSED", 0)
                 ELSE IF Len(refQ) = cap_ THEN Result("FULL", 0)
                 ELSE Result("SUCCESS", 0)
    /\ refQ' = IF ~refClosed /\ Len(refQ) < cap_ THEN Append(refQ, v) ELSE refQ
    /\ UNCHANGED refClosed

RefPop ==
    /\ expect' = IF refQ = <<>> THEN Result("EMPTY", 0)
                 ELSE Result("SUCCESS", Head(refQ))
    /\ refQ' = IF refQ = <<>> THEN refQ ELSE Tail(refQ)
    /\ UNCHANGED refClosed

RefPeek ==
    /\ expect' = IF refQ = <<>> THEN Result("EMPTY", 0)
                 ELSE Result("SUCCESS", Head(refQ))
    /\ UNCHANGED <<refQ, refClosed>>

RefClose ==
    /\ expect' = Result("VOID", 0)
    /\ refClosed' = TRUE
    /\ UNCHANGED refQ

\* ------------------------------------------------------------ try_push
\* try_push entry and select_4_write's load of sendX_; the value pushed is
\* the call's number, so every push carries a value of its own
PushCall(p) ==
    /\ Idle(p)
    /\ calls.push < MaxPush
    /\ Step(p, [NoFrame EXCEPT !.pc = "w_loop", !.op = "push", !.x = sendX_,
                               !.val = calls.push + 1, !.atClosed = is_close])
    /\ calls' = [calls EXCEPT !.push = @ + 1]
    /\ UNCHANGED <<shared, claimed, pushedBy, popped, closesDone, drain>>

PushStart(p) == PushCall(p) /\ UNCHANGED refVars
\* a call made while no other call is in progress
SeqPush(p) == AllIdle /\ PushCall(p) /\ RefPush(calls.push + 1)

\* top of the loop: the closed check, then the load of the slot's lap
WLoop(p) ==
    /\ frame[p].pc = "w_loop"
    /\ IF ClosedBit(frame[p].x)
       THEN Return(p, Result("CLOSED", 0))
       ELSE Step(p, [frame[p] EXCEPT !.pc = "w_cmp",
                         !.lap = frame[p].x.lap, !.pos = frame[p].x.pos,
                         !.elem_lap = buf_[frame[p].x.pos].lap])
    /\ UNCHANGED <<shared, hist, refVars>>

\* lap == elem_lap and the compare-exchange succeeds: the slot is claimed
WClaim(p) ==
    /\ frame[p].pc = "w_cmp"
    /\ SlotReady(frame[p].lap, frame[p].elem_lap)
    /\ CasEq(sendX_, frame[p].x)
    /\ sendX_' = NextX(frame[p].x, cap_)
    /\ Step(p, [frame[p] EXCEPT !.pc = "w_val", !.x = Word(0, 0), !.lap = 0])
    /\ claimed' = Append(claimed, frame[p].val)
    /\ UNCHANGED <<cap_, buf_, size_, recvX_, pushedBy, popped, calls,
                   closesDone, drain, refVars>>

\* lap == elem_lap and the compare-exchange fails (sendX_ differs, or the
\* weak form fails spuriously): x becomes the value read, and the loop repeats
WCasFail(p) ==
    /\ frame[p].pc = "w_cmp"
    /\ SlotReady(frame[p].lap, frame[p].elem_lap)
    /\ Step(p, [frame[p] EXCEPT !.pc = "w_loop", !.x = sendX_, !.lap = 0,
                                !.pos = 0, !.elem_lap = 0])
    /\ UNCHANGED <<shared, hist, refVars>>

\* lap != elem_lap: FULL when the cursor is ahead of the slot's lap, also as
\* read again; otherwise back to the top of the loop with the same x
WElse(p) ==
    /\ frame[p].pc = "w_cmp"
    /\ ~SlotReady(frame[p].lap, frame[p].elem_lap)
    /\ IF /\ LapAhead(frame[p].lap, frame[p].elem_lap)
          /\ frame[p].lap > buf_[frame[p].pos].lap
       THEN Return(p, Result("FULL", 0))
       ELSE Step(p, [frame[p] EXCEPT !.pc = "w_loop", !.lap = 0, !.pos = 0,
                                     !.elem_lap = 0])
    /\ UNCHANGED <<shared, hist, refVars>>

\* elem->value = val
WVal(p) ==
    /\ frame[p].pc = "w_val"
    /\ buf_' = [buf_ EXCEPT ![frame[p].pos].value = frame[p].val]
    /\ Step(p, [frame[p] EXCEPT !.pc = "w_pub"])
    /\ UNCHANGED <<cap_, size_, sendX_, recvX_, hist, refVars>>

\* elem->lap.store(elem_lap + 1)
WPub(p) ==
    /\ frame[p].pc = "w_pub"
    /\ buf_' = [buf_ EXCEPT ![frame[p].pos].lap = LapPlus1(frame[p].elem_lap)]
    /\ Step(p, [frame[p] EXCEPT !.pc = "w_size", !.pos = 0, !.elem_lap = 0,
                                !.val = 0])
    /\ pushedBy' = [pushedBy EXCEPT ![p] = Append(@, frame[p].val)]
    /\ UNCHANGED <<cap_, size_, sendX_, recvX_, claimed, popped, calls,
                   closesDone, drain, refVars>>

\* size_.fetch_add(1); return SUCCESS
WSize(p) ==
    /\ frame[p].pc = "w_size"
    /\ size_' = Add32(size_, 1)
    /\ Return(p, Result("SUCCESS", 0))
    /\ UNCHANGED <<cap_, buf_, sendX_, recvX_, hist, refVars>>

\* ------------------------------------------------- try_pop / try_peek
\* the values whose try_push has returned SUCCESS: those p has published,
\* but for the last while p is still before its return
CompletedBy(p) ==
    LET n == Len(pushedBy[p]) - (IF frame[p].pc = "w_size" THEN 1 ELSE 0)
    IN  {pushedBy[p][i] : i \in 1 .. n}
\* some try_push has returned SUCCESS for a value that no pop has taken
StoredDone ==
    \E p \in Producers : \E v \in CompletedBy(p) :
        \A j \in DOMAIN popped : popped[j] # v
\* entry and select_4_read's first read of recvX_ (pos)
ReadCall(c, op) ==
    /\ Idle(c)
    /\ Step(c, [NoFrame EXCEPT !.pc = "r_lap", !.op = op, !.pos = recvX_.pos,
                               !.atDrain = (drain >= 0),
                               !.atStored = StoredDone])
    /\ calls' = [calls EXCEPT ![op] = @ + 1]
    /\ UNCHANGED <<shared, claimed, pushedBy, popped, closesDone, drain>>

PopCall(c) == calls.pop < MaxPop /\ ReadCall(c, "pop")
PeekCall(c) == calls.peek < MaxPeek /\ ReadCall(c, "peek")

PopStart(c) == PopCall(c) /\ UNCHANGED refVars
SeqPop(c) == AllIdle /\ PopCall(c) /\ RefPop
SeqPeek(c) == AllIdle /\ PeekCall(c) /\ RefPeek

\* lap = recvX_ >> 16
RLap(c) ==
    /\ frame[c].pc = "r_lap"
    /\ Step(c, [frame[c] EXCEPT !.pc = "r_elem", !.lap = recvX_.lap])
    /\ UNCHANGED <<shared, hist, refVars>>

\* elem = &buf_.get()[pos]; elem_lap = elem->lap.load(). With pos >= cap_
\* (two consumers can both advance recvX_) the load is past the buffer:
\* undefined behaviour, and the thread is followed no further (pc "undef").
RElem(c) ==
    /\ frame[c].pc = "r_elem"
    /\ IF frame[c].pos \in DOMAIN buf_
       THEN Step(c, [frame[c] EXCEPT !.pc = "r_cmp",
                                     !.elem_lap = buf_[frame[c].pos].lap])
       ELSE Step(c, [NoFrame EXCEPT !.pc = "undef", !.op = frame[c].op])
    /\ UNCHANGED <<shared, hist, refVars>>

\* what select_4_read's SUCCESS leads to: try_pop goes on to move the value
\* out, try_peek returns the slot's address (the caller reads the value there)
AfterSelect(c) ==
    IF frame[c].op = "pop"
    THEN Step(c, [frame[c] EXCEPT !.pc = "r_val", !.lap = 0,
                                  !.tmp = Word(0, 0)])
    ELSE Return(c, Result("SUCCESS", buf_[frame[c].pos].value))

\* lap == elem_lap, pos + 1 < cap_: the read of recvX_ in recvX_ = recvX_ + 1
RClaimRead(c) ==
    /\ frame[c].pc = "r_cmp"
    /\ SlotReady(frame[c].lap, frame[c].elem_lap)
    /\ frame[c].pos + 1 < cap_
    /\ Step(c, [frame[c] EXCEPT !.pc = "r_inc", !.tmp = recvX_])
    /\ UNCHANGED <<shared, hist, refVars>>

\* the store of recvX_ = recvX_ + 1, then the return from select_4_read
RClaimInc(c) ==
    /\ frame[c].pc = "r_inc"
    /\ recvX_' = Inc32(frame[c].tmp)
    /\ AfterSelect(c)
    /\ UNCHANGED <<cap_, buf_, size_, sendX_, hist, refVars>>

\* lap == elem_lap, pos + 1 == cap_: recvX_ = (lap + 2) << 16
RClaimWrap(c) ==
    /\ frame[c].pc = "r_cmp"
    /\ SlotReady(frame[c].lap, frame[c].elem_lap)
    /\ ~(frame[c].pos + 1 < cap_)
    /\ recvX_' = LapShift(frame[c].lap)
    /\ AfterSelect(c)
    /\ UNCHANGED <<cap_, buf_, size_, sendX_, hist, refVars>>

\* lap != elem_lap: every path returns EMPTY (try_pop: T{}; try_peek: nullptr)
REmptySkip(c) ==
    /\ frame[c].pc = "r_cmp"
    /\ ~SlotReady(frame[c].lap, frame[c].elem_lap)
    /\ recvX_' = Inc32(recvX_)
    /\ Return(c, Result("EMPTY", 0))
    /\ UNCHANGED <<cap_, buf_, size_, sendX_, hist, refVars>>
REmpty(c) ==
    /\ frame[c].pc = "r_cmp"
    /\ ~SlotReady(frame[c].lap, frame[c].elem_lap)
    /\ Return(c, Result("EMPTY", 0))
    /\ UNCHANGED <<shared, hist, refVars>>

\* T out{ std::move(elem->value) }
RVal(c) ==
    /\ frame[c].pc = "r_val"
    /\ Step(c, [frame[c] EXCEPT !.pc = "r_pub",
                                !.out = buf_[frame[c].pos].value])
    /\ UNCHANGED <<shared, hist, refVars>>

\* elem->lap.store(elem_lap + 1)
RPub(c) ==
    /\ frame[c].pc = "r_pub"
    /\ buf_' = [buf_ EXCEPT ![frame[c].pos].lap = LapPlus1(frame[c].elem_lap)]
    /\ Step(c, [frame[c] EXCEPT !.pc = "r_size", !.pos = 0, !.elem_lap = 0])
    /\ popped' = Append(popped, frame[c].out)
    /\ UNCHANGED <<cap_, size_, sendX_, recvX_, claimed, pushedBy, calls,
                   closesDone, drain, refVars>>

\* size_.fetch_add(-1); return (out, SUCCESS)
RSize(c) ==
    /\ frame[c].pc = "r_size"
    /\ size_' = Add32(size_, -1)
    /\ Return(c, Result("SUCCESS", frame[c].out))
    /\ UNCHANGED <<cap_, buf_, sendX_, recvX_, hist, refVars>>

\* ------------------------------------------------------------ close
\* x = sendX_.load(); new_x = x | kMask32
CloseCall(k) ==
    /\ Idle(k)
    /\ calls.close < MaxClose
    /\ Step(k, [NoFrame EXCEPT !.pc = "c_cas", !.op = "close", !.x = sendX_,
                               !.new_x = CloseNewX(sendX_)])
    /\ calls' = [calls EXCEPT !.close = @ + 1]
    /\ UNCHANGED <<shared, claimed, pushedBy, popped, closesDone, drain>>

CloseStart(k) == CloseCall(k) /\ UNCHANGED refVars
SeqClose(k) == AllIdle /\ CloseCall(k) /\ RefClose

\* the compare-exchange succeeds: sendX_ = new_x, and close() returns
CloseCas(k) ==
    /\ frame[k].pc = "c_cas"
    /\ CasEq(sendX_, frame[k].x)
    /\ sendX_' = frame[k].new_x
    /\ Return(k, Result("VOID", 0))
    /\ closesDone' = closesDone + 1
    /\ drain' = IF drain < 0 /\ \A p \in Producers : Idle(p)
                THEN Len(popped) ELSE drain
    /\ UNCHANGED <<cap_, buf_, size_, recvX_, claimed, pushedBy, popped,
                   calls, refVars>>

\* the compare-exchange fails (sendX_ differs, or spuriously): x becomes the
\* value read, new_x stays as computed, delay(10), and the loop repeats
CloseCasFail(k) ==
    /\ frame[k].pc = "c_cas"
    /\ Step(k, [frame[k] EXCEPT !.x = sendX_])
    /\ UNCHANGED <<shared, hist, refVars>>

\* ------------------------------------------------------ specifications
\* the steps of select_4_write and try_push after the call's first
PushSteps(p) ==
    \/ WLoop(p)
    \/ WClaim(p)
    \/ WCasFail(p)
    \/ WElse(p)
    \/ WVal(p)
    \/ WPub(p)
    \/ WSize(p)

try_push(p) == PushStart(p) \/ PushSteps(p)

\* the steps of select_4_read and try_pop after the call's first
ReadSteps(c) ==
    \/ RLap(c)
    \/ RElem(c)
    \/ RClaimRead(c)
    \/ RClaimInc(c)
    \/ RClaimWrap(c)
    \/ REmpty(c)
    \/ RVal(c)
    \/ RPub(c)
    \/ RSize(c)

try_pop(c) == PopStart(c) \/ ReadSteps(c)

CloseSteps(k) == CloseCas(k) \/ CloseCasFail(k)

close(k) == CloseStart(k) \/ CloseSteps(k)

\* Two producers and one consumer calling try_pop.
Next ==
    \/ \E p \in Producers : try_push(p)
    \/ try_pop("c1")

Spec == Init /\ [][Next]_vars

\* Two producers and a thread calling close().
RaceNext ==
    \/ \E p \in Producers : try_push(p)
    \/ \E k \in Closers : close(k)

SpecRace == Init /\ [][RaceNext]_vars

\* One producer, one consumer calling try_pop, and a thread calling close().
CloseNext ==
    \/ try_push("p1")
    \/ try_pop("c1")
    \/ \E k \in Closers : close(k)

SpecClose == Init /\ [][CloseNext]_vars

\* Two producers and two consumers calling try_pop.
MPMCNext ==
    \/ \E p \in Producers : try_push(p)
    \/ \E c \in Consumers : try_pop(c)

SpecMPMC == Init /\ [][MPMCNext]_vars

\* One thread calling try_push, try_pop and close, one call at a time, next
\* to the reference FIFO.
SeqNext ==
    \/ SeqPush("p1")
    \/ SeqPop("c1")
    \/ SeqClose("k1")
    \/ PushSteps("p1")
    \/ ReadSteps("c1")
    \/ CloseSteps("k1")

SpecSeq == Init /\ [][SeqNext]_vars

\* One thread calling try_push and try_pop, one call at a time, on a queue
\* whose laps are about to reach kMask16.
LapNext ==
    \/ SeqPush("p1")
    \/ SeqPop("c1")
    \/ PushSteps("p1")
    \/ ReadSteps("c1")

SpecLap == InitLap /\ [][LapNext]_vars

\* One thread calling try_push, try_pop and try_peek, one call at a time.
PeekNext ==
    \/ SeqPush("p1")
    \/ SeqPop("c1")
    \/ SeqPeek("c1")
    \/ PushSteps("p1")
    \/ ReadSteps("c1")

SpecPeek == Init /\ [][PeekNext]_vars

\* ------------------------------------------------------------ claims
Range(s) == {s[i] : i \in DOMAIN s}
IsPrefix(a, b) == Len(a) <= Len(b) /\ SubSeq(b, 1, Len(a)) = a
\* the popped values that producer p published, in the order they were popped
PoppedOf(p) ==
    LET mine(v) == v \in Range(pushedBy[p])
    IN  SelectSeq(popped, mine)

\* C1: with producers pushing and one consumer popping (no try_peek), every
\* popped value was published by a successful try_push before, and the values
\* of each producer are popped in the order that producer pushed them: what
\* is popped of a producer's values is a prefix of what it pushed.
C1_NoLossFifo ==
    /\ \A i \in DOMAIN popped : \E p \in Producers : popped[i] \in Range(pushedBy[p])
    /\ \A p \in Producers : IsPrefix(PoppedOf(p), pushedBy[p])

\* Two values of one producer and a value of the other have been popped.
C1_Witness ==
    /\ \E p \in Producers : Len(PoppedOf(p)) >= 2
    /\ \A p \in Producers : Len(PoppedOf(p)) >= 1

\* the values published by successful pushes, and how many there are
Pushed == UNION {Range(pushedBy[p]) : p \in Producers}
NPushed == Cardinality(Pushed)

\* C2: with two consumers calling try_pop at the same time, no pushed value
\* is popped twice.
C2_NoDuplicate ==
    \A i, j \in DOMAIN popped :
        (i # j /\ popped[i] \in Pushed) => popped[i] # popped[j]

\* C3: in every reachable state, with producers and consumers in any number,
\* the pushes that have published their slot minus the pops that have
\* published theirs is in [0, C].
C3_BoundedOccupancy ==
    /\ NPushed - Len(popped) >= 0
    /\ NPushed - Len(popped) <= cap_

\* C4: once is_close() is true no step of any thread makes it false again,
\* and a try_push that starts after that point returns CLOSED and never
\* claims a slot or stores a value, with producers racing close().
C4_ClosedMonotonic ==
    /\ [][is_close => is_close']_vars
    /\ [](/\ (ret.op = "push" /\ ret.atClosed) => ret.res.st = "CLOSED"
          /\ \A p \in Producers :
                 frame[p].atClosed => frame[p].pc \in {"idle", "w_loop"})

\* A try_push begun after the close has returned CLOSED while the other
\* producer's call, begun before it, is at its compare-exchange.
C4_Witness ==
    /\ is_close
    /\ ret.op = "push" /\ ret.atClosed /\ ret.res.st = "CLOSED"
    /\ \E p \in Producers :
           /\ frame[p].pc = "w_cmp" /\ ~frame[p].atClosed
           /\ SlotReady(frame[p].lap, frame[p].elem_lap)

\* C5: with one consumer, when a close() has returned with no push in
\* flight, every try_pop called after it returns the oldest value not yet
\* popped while one remains, in the order the values were pushed, and EMPTY
\* exactly when every pushed value has been popped; no stored value is lost.
C5_DrainAfterClose ==
    (ret.op = "pop" /\ ret.atDrain) =>
        /\ IsPrefix(popped, claimed)
        /\ ret.res.st \in {"SUCCESS", "EMPTY"}
        /\ ret.res.st = "EMPTY" => popped = claimed
        /\ ret.res.st = "SUCCESS" =>
               /\ Len(popped) >= 1
               /\ ret.res.v = claimed[Len(popped)]

\* close() returned on a queue of capacity 2 holding two values, both were
\* popped after it, and the next try_pop has returned EMPTY.
C5_Witness ==
    /\ ret.op = "pop" /\ ret.atDrain /\ ret.res.st = "EMPTY"
    /\ cap_ = 2
    /\ drain >= 0 /\ Len(popped) = drain + 2

\* C6: for every capacity and every sequence of try_push, try_pop and close
\* calls made one at a time, each call returns what the reference FIFO with
\* a closed flag returns: CLOSED, FULL or SUCCESS for try_push, EMPTY or the
\* oldest stored value for try_pop.
C6_SequentialFifo ==
    ret.t # "none" => ret.res = expect

\* On a queue of capacity 1: push 1, pop, push 2, close, push 3 (CLOSED), and
\* the try_pop after them has returned 2.
C6_Witness ==
    /\ cap_ = 1 /\ refClosed /\ calls.push = 3
    /\ ret.op = "pop" /\ ret.res = Result("SUCCESS", 2)

\* C7: however many laps the cursors and slots have completed, also where
\* the 16-bit lap fields reach 2^15, on an open queue used by one thread a
\* try_push on a queue that is not full returns SUCCESS and a try_pop on a
\* queue that is not empty returns the oldest stored value.
C7_LapWraparound ==
    /\ (ret.op = "push" /\ expect.st = "SUCCESS") => ret.res.st = "SUCCESS"
    /\ (ret.op = "pop" /\ expect.st = "SUCCESS") => ret.res = expect

\* C8: with one consumer calling one at a time, on a queue that is not
\* empty try_peek returns the oldest stored value and removes nothing: a
\* second try_peek returns the same value, and so does a try_pop after it.
C8_PeekPairsWithPop ==
    (ret.op \in {"peek", "pop"} /\ expect.st = "SUCCESS") => ret.res = expect

\* Producer p is at the top of select_4_write's loop with a cursor value x
\* whose slot is on another lap and which the FULL test does not accept:
\* its own steps (WLoop, then WElse) lead back to this frame with the shared
\* state as it is, since x is read again only when a compare-exchange fails.
StaleSpin(p) ==
    /\ frame[p].pc = "w_loop"
    /\ ~ClosedBit(frame[p].x)
    /\ LET lap == frame[p].x.lap
           elem_lap == buf_[frame[p].x.pos].lap
       IN  /\ ~SlotReady(lap, elem_lap)
           /\ ~(LapAhead(lap, elem_lap) /\ lap > elem_lap)

\* C9: with two producers, once every other thread has stopped (no call of
\* another thread is in progress) a try_push in progress is never in a state
\* from which its own steps go round its retry loop for ever without
\* returning SUCCESS, FULL or CLOSED.
C9_PushReturns ==
    \A p \in Producers :
        (\A t \in Threads \ {p} : Idle(t)) => ~StaleSpin(p)

\* C10: after a close() has returned, a further close() with no other call
\* in progress changes nothing in any of its steps - send cursor, recv
\* cursor, slot laps, slot values and length counter stay as the first
\* close() left them - and is_close() is true from the first close() on.
C10_CloseIdempotent ==
    /\ [][(closesDone >= 1 /\ \E k \in Closers : ~Idle(k)) =>
              UNCHANGED shared]_vars
    /\ [](closesDone >= 1 => is_close)

\* The second close() in a row has returned on a queue of capacity 2 that
\* holds one value, the send cursor at position 1.
C10_Witness ==
    /\ closesDone = 2 /\ ret.op = "close"
    /\ cap_ = 2 /\ sendX_.pos = 1 /\ refQ = <<1>>
    /\ is_close

\* the places of a try_push or try_pop call after its cursor advance
Committed == {"w_val", "w_pub", "w_size", "r_val", "r_pub", "r_size"}
FailedStates == {"FULL", "CLOSED", "EMPTY"}

\* C11: a try_push that returns FULL or CLOSED and a try_pop that returns
\* EMPTY have changed nothing: no step of such a call changes the send
\* cursor, the recv cursor, a slot's lap or value, or the length counter.
\* A step of a call that changes any of them puts the call past its cursor
\* advance, from there the call stays past it until it returns, and it
\* returns SUCCESS; the step that returns a failure changes nothing either.
C11_FailedOpsChangeNothing ==
    [][\A t \in Producers \cup Consumers :
          /\ (frame'[t] # frame[t] /\ shared' # shared) =>
                 \/ frame'[t].pc \in Committed
                 \/ ret'.t = t /\ ret'.res.st = "SUCCESS"
          /\ (frame[t].pc \in Committed /\ frame'[t] # frame[t]) =>
                 \/ frame'[t].pc \in Committed
                 \/ ret'.t = t /\ ret'.res.st = "SUCCESS"
          /\ (ret'.t = t /\ ret'.res.st \in FailedStates) =>
                 /\ frame[t].pc \notin Committed
                 /\ UNCHANGED shared]_vars

\* A try_push has returned FULL on a queue of capacity 2 that holds two
\* values, after a try_pop that popped nothing.
C11_Witness ==
    /\ ret.op = "push" /\ ret.res.st = "FULL"
    /\ cap_ = 2 /\ size_ = [hi |-> 0, lo |-> 2]
    /\ calls.pop >= 1 /\ popped = <<>>

\* no try_push or try_pop call is in progress
Quiescent == \A t \in Producers \cup Consumers : Idle(t)
\* the length counter as a number when its high half is 0
SizeInRange == size_.hi = 0 /\ size_.lo <= cap_

\* C12: whenever no try_push or try_pop call is in progress (try_peek never
\* called), len() is the number of successful pushes minus the number of
\* successful pops and lies in [0, C]; the counter is outside [0, C] only
\* while a call is between its lap store and its counter update.
C12_LenExactWhenQuiescent ==
    /\ Quiescent =>
           /\ SizeInRange
           /\ size_.lo = NPushed - Len(popped)
    /\ ~SizeInRange =>
           \E t \in Producers \cup Consumers : frame[t].pc \in {"w_size", "r_size"}

\* C13: is_close() is true and try_push returns CLOSED only if a close()
\* call has started; try_push and try_pop calls alone, however many rounds
\* of the ring they complete, never set the closed bit of the send cursor.
C13_ClosedOnlyAfterClose ==
    /\ is_close => calls.close >= 1
    /\ (ret.op = "push" /\ ret.res.st = "CLOSED") => calls.close >= 1

\* a cursor word with the closed bit masked out (bits 0..30)
Low31(x) == Word(x.pos, x.lap % kMask16)

\* C14: the step in which close() completes, also with producers advancing
\* the send cursor at the same time, leaves the send cursor's position and
\* lap (bits 0..30) as they were just before it, and leaves the recv cursor,
\* the slots and the length counter unchanged.
C14_CloseOnlyClosedBit ==
    [][ret'.op = "close" =>
          /\ Low31(sendX_') = Low31(sendX_)
          /\ UNCHANGED <<cap_, buf_, size_, recvX_>>]_vars

\* every slot's lap
SlotLaps == [i \in DOMAIN buf_ |-> buf_[i].lap]

\* C15: no step of a try_peek call, whether the call returns an element or
\* none, changes the recv cursor, the send cursor, a slot's lap or the
\* length counter.
C15_PeekReadOnly ==
    [][\A c \in Consumers :
          (frame[c].op = "peek" /\ frame'[c] # frame[c]) =>
              /\ UNCHANGED <<recvX_, sendX_, size_>>
              /\ SlotLaps' = SlotLaps]_vars

\* thread t is between its cursor advance for slot i and its store of that
\* slot's lap: the window in which it writes or reads the slot's value
Owns(t, i) == frame[t].pc \in {"w_val", "w_pub", "r_val", "r_pub"} /\ frame[t].pos = i
Owners(i) == {t \in Threads : Owns(t, i)}

\* C16: with two producers and one consumer, at most one thread at a time
\* is between claiming a slot and publishing that slot's lap: two producers
\* never write one slot's value at the same time, and no producer writes a
\* slot's value while the consumer reads it.
C16_DisjointWindows ==
    \A i \in DOMAIN buf_ : Cardinality(Owners(i)) <= 1

\* On a queue of capacity 2 a producer is writing slot 0 for the second time
\* while the consumer is reading slot 1.
C16_Witness ==
    /\ cap_ = 2
    /\ \E p \in Producers : Owns(p, 0) /\ frame[p].elem_lap = 2
    /\ Owns("c1", 1)

\* C17: over any execution no slot's lap ever decreases, and a step that
\* stores a slot's lap writes the slot's current lap plus one, so that a
\* slot's lap goes 0, 1, 2, ... alternating writable (even) and readable
\* (odd).
C17_LapMonotonic ==
    [][\A i \in DOMAIN buf_ :
          /\ buf_'[i].lap >= buf_[i].lap
          /\ \A t \in Threads :
                 (frame[t].pc \in {"w_pub", "r_pub"} /\ frame[t].pos = i
                  /\ frame'[t] # frame[t]) => buf_'[i].lap = buf_[i].lap + 1]_vars

\* C18: in every reachable state both cursors have pos in [0, C), the send
\* cursor's lap without the closed bit is even and the recv cursor's lap is
\* odd; a producer's claim happens only when the slot's lap equals the send
\* cursor's lap (even), a consumer's claim only when the slot's lap equals
\* the recv cursor's lap (odd).
C18_CursorWellFormed ==
    /\ [](/\ sendX_.pos \in 0 .. cap_ - 1
          /\ recvX_.pos \in 0 .. cap_ - 1
          /\ (sendX_.lap % kMask16) % 2 = 0
          /\ recvX_.lap % 2 = 1)
    /\ [][\A t \in Producers \cup Consumers :
             /\ (sendX_' # sendX_ /\ frame'[t].pc = "w_val"
                 /\ frame[t].pc = "w_cmp") =>
                    /\ buf_[frame[t].pos].lap = sendX_.lap
                    /\ sendX_.lap % 2 = 0
             /\ (recvX_' # recvX_ /\ frame'[t] # frame[t]) =>
                    /\ buf_[frame[t].pos].lap = recvX_.lap
                    /\ recvX_.lap % 2 = 1]_vars

C20_NoEmptyWhileStored ==
    (ret.op = "pop" /\ ret.atStored) => ret.res.st # "EMPTY"

=============================================================================
